---- MODULE Spec2Model ----
(***************************************************************************)
(* A model of sitemap_retriever.py: the discovery loop of                  *)
(* get_sitemaps_from_url, the fetch/decode/parse of get_sitemap_content,   *)
(* parse_robots_txt and find_sitemaps_in_html.                             *)
(*                                                                         *)
(* Python str values are sequences of one-character strings, so that       *)
(* split, find, strip, lower, startswith, endswith and slicing are         *)
(* computed position by position.  Positions are 1-based here; 0 plays the *)
(* part of Python's -1 ("not found").                                      *)
(***************************************************************************)
EXTENDS Integers, Sequences, FiniteSets, TLC

(***************************************************************************)
(* Python str methods                                                      *)
(***************************************************************************)

Upper == <<"A","B","C","D","E","F","G","H","I","J","K","L","M","N","O","P","Q","R","S","T","U","V","W","X","Y","Z">>

Lower == <<"a","b","c","d","e","f","g","h","i","j","k","l","m","n","o","p","q","r","s","t","u","v","w","x","y","z">>

Whitespace == {" ", "\t", "\n", "\r"}

\* c.lower() of one character
LowerChar(c) ==
    IF \E i \in 1..Len(Upper) : Upper[i] = c
    THEN Lower[CHOOSE i \in 1..Len(Upper) : Upper[i] = c]
    ELSE c

\* s.lower()
StrLower(s) == [i \in 1..Len(s) |-> LowerChar(s[i])]

\* sub occurs in s at position i
OccursAt(s, sub, i) ==
    /\ i >= 1
    /\ i + Len(sub) - 1 <= Len(s)
    /\ \A k \in 1..Len(sub) : s[i + k - 1] = sub[k]

\* s.startswith(p)
StartsWith(s, p) == OccursAt(s, p, 1)

\* s.endswith(p)
EndsWith(s, p) == OccursAt(s, p, Len(s) - Len(p) + 1)

\* s.find(sub, start): the lowest position >= start where sub occurs, 0 if none
Find(s, sub, start) ==
    LET hits == {i \in start..Len(s) : OccursAt(s, sub, i)}
    IN  IF hits = {} THEN 0 ELSE CHOOSE i \in hits : \A j \in hits : i <= j

\* sub in s
Contains(s, sub) == Find(s, sub, 1) # 0

\* s[a:b] for 1-based a and exclusive 1-based b
Slice(s, a, b) == SubSeq(s, a, b - 1)

\* s.split(sep) for a non-empty sep: cut at every occurrence, left to right
RECURSIVE StrSplit(_, _)
StrSplit(s, sep) ==
    LET p == Find(s, sep, 1)
    IN  IF p = 0
        THEN <<s>>
        ELSE <<SubSeq(s, 1, p - 1)>> \o StrSplit(SubSeq(s, p + Len(sep), Len(s)), sep)

\* s.lstrip()
RECURSIVE LStrip(_)
LStrip(s) ==
    IF s # <<>> /\ Head(s) \in Whitespace THEN LStrip(Tail(s)) ELSE s

\* s.rstrip()
RECURSIVE RStrip(_)
RStrip(s) ==
    IF s # <<>> /\ s[Len(s)] \in Whitespace
    THEN RStrip(SubSeq(s, 1, Len(s) - 1))
    ELSE s

\* s.strip()
StrStrip(s) == RStrip(LStrip(s))

\* "\n".join(lines)
RECURSIVE JoinLines(_)
JoinLines(lines) ==
    IF lines = <<>> THEN <<>>
    ELSE IF Len(lines) = 1 THEN lines[1]
    ELSE lines[1] \o <<"\n">> \o JoinLines(Tail(lines))

(***************************************************************************)
(* urllib.parse, for the URLs this program builds: an absolute base        *)
(* "scheme://netloc[/path]" and a relative reference with no scheme and no *)
(* leading slash.                                                          *)
(***************************************************************************)

SchemeSep == <<":","/","/">>

\* urlparse(url).scheme
UrlScheme(url) ==
    LET p == Find(url, SchemeSep, 1)
    IN  IF p = 0 THEN <<>> ELSE StrLower(SubSeq(url, 1, p - 1))

\* the position after "scheme://" where netloc starts
NetlocStart(url) == Find(url, SchemeSep, 1) + Len(SchemeSep)

\* urlparse(url).netloc: up to the next "/" (none of the URLs here has ? or #)
UrlNetloc(url) ==
    LET a == NetlocStart(url)
        e == Find(url, <<"/">>, a)
    IN  IF e = 0 THEN SubSeq(url, a, Len(url)) ELSE SubSeq(url, a, e - 1)

\* urlparse(url).path
UrlPath(url) ==
    LET e == Find(url, <<"/">>, NetlocStart(url))
    IN  IF e = 0 THEN <<>> ELSE SubSeq(url, e, Len(url))

\* the position of the last "/" of a path, 0 if it has none
LastSlash(path) ==
    LET hits == {i \in 1..Len(path) : path[i] = "/"}
    IN  IF hits = {} THEN 0 ELSE CHOOSE i \in hits : \A j \in hits : i >= j

\* urljoin(base, ref): ref replaces what follows the last "/" of base's path
UrlJoin(base, ref) ==
    LET path == UrlPath(base)
        dir  == IF path = <<>> THEN <<"/">> ELSE SubSeq(path, 1, LastSlash(path))
    IN  UrlScheme(base) \o SchemeSep \o UrlNetloc(base) \o dir \o ref

(***************************************************************************)
(* Module constants                                                        *)
(***************************************************************************)

ROBOTS_TXT == <<"r","o","b","o","t","s",".","t","x","t">>

SITEMAP_INDICATORS ==
    << <<"s","i","t","e","m","a","p",".","x","m","l">>,
       <<"s","i","t","e","m","a","p","_","i","n","d","e","x",".","x","m","l">>,
       <<"s","i","t","e","m","a","p","-","i","n","d","e","x",".","x","m","l">>,
       <<"s","i","t","e","m","a","p","_","i","n","d","e","x",".","x","m","l",".","g","z">>,
       <<"s","i","t","e","m","a","p",".","x","m","l",".","g","z">>,
       ROBOTS_TXT >>

HTTP == <<"h","t","t","p">>

HTTPS == <<"h","t","t","p","s">>

(***************************************************************************)
(* parse_robots_txt                                                        *)
(***************************************************************************)

SITEMAP_PREFIX == <<"s","i","t","e","m","a","p",":">>

COLON_SPACE == <<":"," ">>

\* Python raises IndexError on [1] of a one-element list
IndexError == <<"IndexError">>

\* line 145 without lower(): the prefix compared case-sensitively
RobotsLineQualifiesCaseSensitive(line) == StartsWith(line, SITEMAP_PREFIX)

\* line 145: the lines the comprehension keeps
RobotsLineQualifies(line) == StartsWith(StrLower(line), SITEMAP_PREFIX)

\* line.split(": ")[1].strip(), or IndexError when split gives one piece
RobotsLineEntry(line) ==
    LET parts == StrSplit(line, COLON_SPACE)
    IN  IF Len(parts) < 2 THEN IndexError ELSE StrStrip(parts[2])

RECURSIVE RobotsEntries(_)
RobotsEntries(lines) ==
    IF lines = <<>> THEN <<>>
    ELSE IF RobotsLineQualifies(Head(lines))
         THEN <<RobotsLineEntry(Head(lines))>> \o RobotsEntries(Tail(lines))
         ELSE RobotsEntries(Tail(lines))

\* parse_robots_txt: [raised |-> TRUE] when some kept line has no ": ",
\* else the list of entries
parse_robots_txt(robots_txt_content) ==
    LET entries == RobotsEntries(StrSplit(robots_txt_content, <<"\n">>))
    IN  IF \E i \in 1..Len(entries) : entries[i] = IndexError
        THEN [raised |-> TRUE, value |-> <<>>]
        ELSE [raised |-> FALSE, value |-> entries]

(***************************************************************************)
(* find_sitemaps_in_html                                                   *)
(***************************************************************************)

QUOTE == <<"\"">>

\* lines 153-164 without the branch of line 155: the url is always cut at the
\* indicator and resolved against base_url
HtmlLineIndicatorRelativeOnly(line, indicator, base_url) ==
    IF ~Contains(line, indicator) THEN <<>>
    ELSE LET start2 == Find(line, indicator, 1)
             end2   == Find(line, QUOTE, start2)
         IN  IF start2 # 0 /\ end2 # 0
             THEN <<UrlJoin(base_url, Slice(line, start2, end2))>>
             ELSE <<>>

\* what one (line, indicator) pair appends: a list of zero or one URL
HtmlLineIndicator(line, indicator, base_url) ==
    IF ~Contains(line, indicator) THEN <<>>
    ELSE LET start == Find(line, HTTP, 1)
         IN  IF start # 0
             THEN LET end == Find(line, QUOTE, start)
                  IN  IF end # 0 THEN <<Slice(line, start, end)>> ELSE <<>>
             ELSE LET start2 == Find(line, indicator, 1)
                      end2   == Find(line, QUOTE, start2)
                  IN  IF start2 # 0 /\ end2 # 0
                      THEN <<UrlJoin(base_url, Slice(line, start2, end2))>>
                      ELSE <<>>

\* the inner loop over SITEMAP_INDICATORS, from indicator i on
RECURSIVE HtmlLine(_, _, _)
HtmlLine(line, i, base_url) ==
    IF i > Len(SITEMAP_INDICATORS) THEN <<>>
    ELSE HtmlLineIndicator(line, SITEMAP_INDICATORS[i], base_url)
         \o HtmlLine(line, i + 1, base_url)

RECURSIVE HtmlLines(_, _)
HtmlLines(lines, base_url) ==
    IF lines = <<>> THEN <<>>
    ELSE HtmlLine(Head(lines), 1, base_url) \o HtmlLines(Tail(lines), base_url)

find_sitemaps_in_html(html_content, base_url) ==
    HtmlLines(StrSplit(html_content, <<"\n">>), base_url)

(***************************************************************************)
(* Response bodies.  A body (bytes) is a sequence of tokens [k, v]:        *)
(*   "gzip"  the header of a gzip member; what follows is its payload      *)
(*   "open"  a start tag, v its namespace-expanded name (ElementTree's     *)
(*           "{namespace}local")                                           *)
(*   "close" an end tag of name v                                          *)
(*   "text"  character data v (non-empty, not only whitespace)             *)
(*   "bad"   a run of bytes that is not valid UTF-8                        *)
(***************************************************************************)

Tok(k, v) == [k |-> k, v |-> v]

GZIP_MAGIC == Tok("gzip", <<>>)

BAD_BYTES == Tok("bad", <<>>)

\* gzip.compress(data)
gzip_compress(data) == <<GZIP_MAGIC>> \o data

\* gzip.decompress(data): the payload of the member; b"" for b""; raises
\* BadGzipFile when data does not start with a gzip header
gzip_decompress(data) ==
    IF data = <<>> THEN [raised |-> FALSE, value |-> <<>>]
    ELSE IF Head(data) = GZIP_MAGIC THEN [raised |-> FALSE, value |-> Tail(data)]
    ELSE [raised |-> TRUE, value |-> <<>>]

\* expat's well-formedness, from token i on with the open elements in stack:
\* one root element, tags balanced, character data only inside the root,
\* nothing after the root's end tag, every byte valid
RECURSIVE XmlWellFormedFrom(_, _, _)
XmlWellFormedFrom(toks, i, stack) ==
    IF i > Len(toks) THEN stack = <<>> /\ toks # <<>>
    ELSE IF i > 1 /\ stack = <<>> THEN FALSE
    ELSE LET t == toks[i]
         IN  CASE t.k = "open"  -> XmlWellFormedFrom(toks, i + 1, <<t.v>> \o stack)
               [] t.k = "close" -> /\ stack # <<>>
                                   /\ Head(stack) = t.v
                                   /\ XmlWellFormedFrom(toks, i + 1, Tail(stack))
               [] t.k = "text"  -> /\ stack # <<>>
                                   /\ XmlWellFormedFrom(toks, i + 1, stack)
               [] OTHER         -> FALSE

\* ET.fromstring(content): raises ParseError unless content is well-formed
ET_fromstring(content) ==
    IF XmlWellFormedFrom(content, 1, <<>>)
    THEN [raised |-> FALSE, tag |-> content[1].v, toks |-> content]
    ELSE [raised |-> TRUE, tag |-> <<>>, toks |-> <<>>]

\* Python's None as a list entry (an element's .text when it has no character data)
PyNone == <<"None">>

\* element.text of the element opened at token i
ElementText(toks, i) ==
    IF i + 1 <= Len(toks) /\ toks[i + 1].k = "text" THEN toks[i + 1].v ELSE PyNone

LOC_TAG == <<"{","h","t","t","p",":","/","/","w","w","w",".","s","i","t","e","m","a","p","s",".","o","r","g","/","s","c","h","e","m","a","s","/","s","i","t","e","m","a","p","/","0",".","9","}","l","o","c">>

SITEMAPINDEX == <<"s","i","t","e","m","a","p","i","n","d","e","x">>

\* [e.text for e in root.findall(".//{ns}loc")]: the proper descendants of the
\* root named LOC_TAG, in document order, from token i on
RECURSIVE LocTexts(_, _)
LocTexts(toks, i) ==
    IF i > Len(toks) THEN <<>>
    ELSE IF toks[i].k = "open" /\ toks[i].v = LOC_TAG
         THEN <<ElementText(toks, i)>> \o LocTexts(toks, i + 1)
         ELSE LocTexts(toks, i + 1)

findall_loc(root) == LocTexts(root.toks, 2)

\* get_sitemap_content returns None
NoneResult == [type |-> "None"]

GZ_SUFFIX == <<".","g","z">>

X_GZIP == "application/x-gzip"

\* lines 111-115 without the url test: only the Content-Type decides
DecodeContentByHeaderOnly(url, response) ==
    IF response.content_type = X_GZIP
    THEN gzip_decompress(response.content)
    ELSE [raised |-> FALSE, value |-> response.content]

\* lines 111-115: the bytes handed to the parser
DecodeContent(url, response) ==
    IF EndsWith(url, GZ_SUFFIX) \/ response.content_type = X_GZIP
    THEN gzip_decompress(response.content)
    ELSE [raised |-> FALSE, value |-> response.content]

\* lines 117-134 with "sitemapindex" in root.tag in place of endswith
ParseContentByContains(content) ==
    LET root == ET_fromstring(content)
    IN  IF root.raised THEN NoneResult
        ELSE IF Contains(root.tag, SITEMAPINDEX)
             THEN [type |-> "index", sitemaps |-> findall_loc(root)]
             ELSE [type |-> "sitemap", urls |-> findall_loc(root)]

\* lines 117-134: parse and classify the decoded bytes
ParseContent(content) ==
    LET root == ET_fromstring(content)
    IN  IF root.raised THEN NoneResult
        ELSE IF EndsWith(root.tag, SITEMAPINDEX)
             THEN [type |-> "index", sitemaps |-> findall_loc(root)]
             ELSE [type |-> "sitemap", urls |-> findall_loc(root)]

\* get_sitemap_content(url, session, headers) given what session.get(url)
\* produced: response.error stands for session.get raising
get_sitemap_content(url, response) ==
    IF response.error THEN NoneResult
    ELSE IF response.status_code # 200 THEN NoneResult
    ELSE LET decoded == DecodeContent(url, response)
         IN  IF decoded.raised THEN NoneResult ELSE ParseContent(decoded.value)

\* what session.get gives back
Response(status_code, content_type, content) ==
    [error |-> FALSE, status_code |-> status_code,
     content_type |-> content_type, content |-> content]

\* session.get raised requests.RequestException
TransportError ==
    [error |-> TRUE, status_code |-> 0, content_type |-> "", content |-> <<>>]

(***************************************************************************)
(* The server: what a request may be answered with                         *)
(***************************************************************************)

NS_URLSET == <<"{","h","t","t","p",":","/","/","w","w","w",".","s","i","t","e","m","a","p","s",".","o","r","g","/","s","c","h","e","m","a","s","/","s","i","t","e","m","a","p","/","0",".","9","}","u","r","l","s","e","t">>

NS_URL == <<"{","h","t","t","p",":","/","/","w","w","w",".","s","i","t","e","m","a","p","s",".","o","r","g","/","s","c","h","e","m","a","s","/","s","i","t","e","m","a","p","/","0",".","9","}","u","r","l">>

NS_SITEMAPINDEX == <<"{","h","t","t","p",":","/","/","w","w","w",".","s","i","t","e","m","a","p","s",".","o","r","g","/","s","c","h","e","m","a","s","/","s","i","t","e","m","a","p","/","0",".","9","}","s","i","t","e","m","a","p","i","n","d","e","x">>

NS_SITEMAP == <<"{","h","t","t","p",":","/","/","w","w","w",".","s","i","t","e","m","a","p","s",".","o","r","g","/","s","c","h","e","m","a","s","/","s","i","t","e","m","a","p","/","0",".","9","}","s","i","t","e","m","a","p">>

\* <wrap><tag>text</tag></wrap>, without character data when text is PyNone
Entry(wrap, tag, text) ==
    <<Tok("open", wrap), Tok("open", tag)>>
    \o (IF text = PyNone THEN <<>> ELSE <<Tok("text", text)>>)
    \o <<Tok("close", tag), Tok("close", wrap)>>

RECURSIVE Flatten(_)
Flatten(seqs) == IF seqs = <<>> THEN <<>> ELSE Head(seqs) \o Flatten(Tail(seqs))

\* <root>entries</root>
Doc(root, entries) == <<Tok("open", root)>> \o Flatten(entries) \o <<Tok("close", root)>>

PAGE_A == <<"h","t","t","p",":","/","/","h","/","a">>

PAGE_B == <<"h","t","t","p",":","/","/","h","/","b">>

CHILD_MAP == <<"h","t","t","p",":","/","/","h","/","c","h","i","l","d",".","x","m","l">>

LeafDoc == Doc(NS_URLSET, <<Entry(NS_URL, LOC_TAG, PAGE_A), Entry(NS_URL, LOC_TAG, PAGE_B)>>)

IndexDoc == Doc(NS_SITEMAPINDEX, <<Entry(NS_SITEMAP, LOC_TAG, CHILD_MAP)>>)

\* a document whose root is never closed
TruncatedDoc == SubSeq(LeafDoc, 1, Len(LeafDoc) - 1)

ROBOTS_LINE_1 == <<"S","i","t","e","m","a","p",":"," ","h","t","t","p",":","/","/","h","/","s","1",".","x","m","l">>

ROBOTS_LINE_2 == <<"s","i","t","e","m","a","p",":"," ","h","t","t","p",":","/","/","h","/","s","2",".","x","m","l">>

ROBOTS_LINE_UA == <<"U","s","e","r","-","a","g","e","n","t",":"," ","*">>

\* a Sitemap line with no space after the colon
ROBOTS_LINE_NOSPACE == <<"S","i","t","e","m","a","p",":","h","t","t","p",":","/","/","h","/","s","1",".","x","m","l">>

\* the bytes of a robots.txt that declares a sitemap: text, and no XML
RobotsBody == <<Tok("text", ROBOTS_LINE_1)>>

\* the bodies the server of the discovery run answers a sitemap fetch with: an
\* index as is, a leaf gzip-compressed, a document that does not parse, and a
\* robots.txt
RunBodies == {IndexDoc, gzip_compress(LeafDoc), TruncatedDoc, RobotsBody}

ContentTypes == {"text/xml", X_GZIP}

\* the Content-Type of the discovery run's server
RunContentTypes == {"text/xml"}

\* the status codes the server answers with
Statuses == {200, 403, 404}

\* every outcome of session.get(url) in get_sitemap_content
ContentResponses ==
    {TransportError}
    \cup {Response(s, ct, b) : s \in {200, 404}, ct \in RunContentTypes, b \in RunBodies}

\* the robots.txt texts of the discovery run
RobotsTexts ==
    { <<>>,
      ROBOTS_LINE_UA,
      ROBOTS_LINE_1,
      JoinLines(<<ROBOTS_LINE_1, ROBOTS_LINE_UA, ROBOTS_LINE_2>>),
      JoinLines(<<ROBOTS_LINE_UA, ROBOTS_LINE_NOSPACE>>) }

HTML_LINE_NONE == <<"<","p",">","n","o"," ","m","a","p"," ","h","e","r","e","<","/","p",">">>

HTML_LINE_ABS == <<"<","a"," ","h","r","e","f","=","\"","h","t","t","p",":","/","/","h","/","s","i","t","e","m","a","p",".","x","m","l","\"",">","m","a","p","<","/","a",">">>

HTML_LINE_REL == <<"<","a"," ","h","r","e","f","=","\"","s","i","t","e","m","a","p","_","i","n","d","e","x",".","x","m","l","\"",">","i","n","d","e","x","<","/","a",">">>

\* the homepage texts of the discovery run
HomepageTexts ==
    { HTML_LINE_NONE,
      HTML_LINE_ABS,
      JoinLines(<<HTML_LINE_NONE, HTML_LINE_ABS, HTML_LINE_REL>>) }

\* the base URLs the run is started with
BaseUrls == { <<"h","t","t","p",":","/","/","h">>, <<"h","t","t","p","s",":","/","/","h","/","d","/","p">> }

(***************************************************************************)
(* State                                                                   *)
(***************************************************************************)

VARIABLES
    base_url,       \* the argument of get_sitemaps_from_url
    pc,             \* where the run is
    idx,            \* the position of spath in SITEMAP_INDICATORS; 7 after the loop
    all_results,    \* the list of {"url", "content"} built so far
    sitemap_urls,   \* the list the robots.txt or homepage loop iterates
    url_i,          \* the position of sitemap_url in sitemap_urls
    robots_text,    \* response.text of the robots.txt probe (line 61); empty before
    reqs,           \* the requests issued since the last time.sleep, oldest first
    robots_reqs,    \* history: reqs of the robots.txt iteration, kept past its sleep
    len_at_probe,   \* history: len(all_results) when the current spath was probed
    probed,         \* history: the full_path of every candidate probe so far
    only_other,     \* history: every probe so far got a status other than 200, 403
    len_after_loop, \* history: len(all_results) when the for loop ended; -1 before
    homepage_gets,  \* history: how often line 89 requested the homepage
    probe_content,  \* history: response.content of a probe answered 200 at line 59,
                    \* for an spath other than robots.txt; empty after the sleep
    fetched,        \* history: what session.get answered at line 108 in the last
                    \* get_sitemap_content call since the sleep
    c_doc,          \* get_sitemap_content alone: the sitemap body the server holds
    c_url,          \* ... the url of the last call
    c_resp,         \* ... what session.get answered in the last call
    c_result,       \* ... what the last call returned
    c_plain,        \* ... the result for c_doc served as is
    c_gz,           \* ... the result for gzip(c_doc) served at a .xml.gz url
    r_text,         \* parse_robots_txt alone: its argument
    r_out,          \* ... what it returned, or that it raised
    h_html,         \* find_sitemaps_in_html alone: its html_content
    h_base,         \* ... its base_url
    h_out           \* ... what it returned

run_vars ==
    <<base_url, pc, idx, all_results, sitemap_urls, url_i, robots_text, reqs,
      robots_reqs, len_at_probe, probed, only_other, len_after_loop, homepage_gets,
      probe_content, fetched>>

content_vars == <<c_doc, c_url, c_resp, c_result, c_plain, c_gz>>

robots_vars == <<r_text, r_out>>

html_vars == <<h_html, h_base, h_out>>

vars == <<run_vars, content_vars, robots_vars, html_vars>>

\* a result slot no call has filled yet
Pending == [type |-> "pending"]

ContentIdle ==
    /\ c_doc = <<>>
    /\ c_url = <<>>
    /\ c_resp = TransportError
    /\ c_result = Pending
    /\ c_plain = Pending
    /\ c_gz = Pending

RobotsIdle ==
    /\ r_text = <<>>
    /\ r_out = [called |-> FALSE, raised |-> FALSE, value |-> <<>>]

\* find_sitemaps_in_html not called yet
NotCalled == [called |-> FALSE, value |-> <<>>]

HtmlIdle ==
    /\ h_html = <<>>
    /\ h_base = <<>>
    /\ h_out = NotCalled

RunIdle ==
    /\ base_url = <<>>
    /\ pc = "idle"
    /\ idx = 1
    /\ all_results = <<>>
    /\ sitemap_urls = <<>>
    /\ url_i = 1
    /\ robots_text = <<>>
    /\ reqs = <<>>
    /\ robots_reqs = <<>>
    /\ len_at_probe = 0
    /\ probed = <<>>
    /\ only_other = TRUE
    /\ len_after_loop = -1
    /\ homepage_gets = 0
    /\ probe_content = <<>>
    /\ fetched = TransportError

(***************************************************************************)
(* get_sitemaps_from_url                                                   *)
(***************************************************************************)

NumCandidates == Len(SITEMAP_INDICATORS)

\* line 51
FullPath(i) == UrlJoin(base_url, SITEMAP_INDICATORS[i])

\* line 71
AltScheme == IF UrlScheme(base_url) = HTTP THEN HTTPS ELSE HTTP

\* lines 72-73
AltFullPath(i) == UrlJoin(AltScheme \o SchemeSep \o UrlNetloc(base_url), SITEMAP_INDICATORS[i])

\* one entry of reqs: the spath position, which call it was, its url, the status
\* answered (0 stands for session.get raising) and, for a get_sitemap_content
\* call, whether it returned a document
Req(kind, url, status, parsed) ==
    [cand |-> idx, kind |-> kind, url |-> url, status |-> status, parsed |-> parsed]

\* a for loop that skips every other spath
NextIdxSkipping(i) == i + 2

\* line 50: the for loop advances to the next spath
NextIdx(i) == i + 1

\* line 87 without its test: the fallback runs whatever was found
NeedHomepageAlways(results) == TRUE

\* line 87: "if not all_results"
NeedHomepage(results) == results = <<>>

\* the entry put in front of the list instead of at its end
PrependResult(results, url, result) ==
    IF result # NoneResult
    THEN <<[url |-> url, content |-> result]>> \o results
    ELSE results

\* the append without line 64's test: whatever get_sitemap_content returned is kept
AppendResultAlways(results, url, result) ==
    Append(results, [url |-> url, content |-> result])

\* lines 64-65, 68-69, 80-81, 96-97: "if result: all_results.append(...)"
AppendResult(results, url, result) ==
    IF result # NoneResult
    THEN Append(results, [url |-> url, content |-> result])
    ELSE results

\* the entry of the run: all_results = [] and the for loop starts
Init ==
    /\ base_url \in BaseUrls
    /\ pc = "probe"
    /\ idx = 1
    /\ all_results = <<>>
    /\ sitemap_urls = <<>>
    /\ url_i = 1
    /\ robots_text = <<>>
    /\ reqs = <<>>
    /\ robots_reqs = <<>>
    /\ len_at_probe = 0
    /\ probed = <<>>
    /\ only_other = TRUE
    /\ len_after_loop = -1
    /\ homepage_gets = 0
    /\ probe_content = <<>>
    /\ fetched = TransportError
    /\ ContentIdle
    /\ RobotsIdle
    /\ HtmlIdle

\* lines 54-57: the probe of spath is issued and answered with status (0: it
\* raised); the history variables take note
ProbeIssued(status) ==
    /\ reqs' = Append(reqs, Req("probe", FullPath(idx), status, FALSE))
    /\ probed' = Append(probed, FullPath(idx))
    /\ len_at_probe' = Len(all_results)
    /\ only_other' = (only_other /\ status \notin {0, 200, 403})

\* lines 54-56 raise requests.RequestException: lines 82-83, then the sleep
ProbeError ==
    /\ pc = "probe"
    /\ ProbeIssued(0)
    /\ pc' = "sleep"
    /\ UNCHANGED <<content_vars, robots_vars, html_vars>>
    /\ UNCHANGED <<probe_content, fetched>>
    /\ UNCHANGED <<base_url, idx, all_results, sitemap_urls, url_i, robots_text,
                   robots_reqs, len_after_loop, homepage_gets>>

\* lines 54-61 for spath = "robots.txt" answered 200: parse_robots_txt either
\* raises IndexError, which nothing in get_sitemaps_from_url catches, or gives
\* the list that lines 62-65 iterate
ProbeRobots ==
    /\ pc = "probe"
    /\ SITEMAP_INDICATORS[idx] = ROBOTS_TXT
    /\ ProbeIssued(200)
    /\ \E text \in RobotsTexts :
          LET parsed == parse_robots_txt(text)
          IN  /\ robots_text' = text
              /\ sitemap_urls' = parsed.value
              /\ pc' = IF parsed.raised THEN "raised"
                       ELSE IF parsed.value = <<>> THEN "sleep"
                       ELSE "robots_loop"
    /\ url_i' = 1
    /\ UNCHANGED <<content_vars, robots_vars, html_vars>>
    /\ UNCHANGED <<probe_content, fetched>>
    /\ UNCHANGED <<base_url, idx, all_results, robots_reqs, len_after_loop,
                   homepage_gets>>

\* lines 54-60, 66 for another spath answered 200, with whatever body:
\* get_sitemap_content is called next
ProbeOk ==
    /\ pc = "probe"
    /\ SITEMAP_INDICATORS[idx] # ROBOTS_TXT
    /\ ProbeIssued(200)
    /\ \E body \in RunBodies : probe_content' = body
    /\ pc' = "content"
    /\ UNCHANGED <<content_vars, robots_vars, html_vars>>
    /\ UNCHANGED fetched
    /\ UNCHANGED <<base_url, idx, all_results, sitemap_urls, url_i, robots_text,
                   robots_reqs, len_after_loop, homepage_gets>>

\* lines 54-59, 70-74 for a probe answered 403: the alternate scheme is requested next
ProbeForbidden ==
    /\ pc = "probe"
    /\ ProbeIssued(403)
    /\ pc' = "alt"
    /\ UNCHANGED <<content_vars, robots_vars, html_vars>>
    /\ UNCHANGED <<probe_content, fetched>>
    /\ UNCHANGED <<base_url, idx, all_results, sitemap_urls, url_i, robots_text,
                   robots_reqs, len_after_loop, homepage_gets>>

\* a probe answered with another status that goes on to get_sitemap_content as
\* if it had been answered 200
ProbeOtherFetching ==
    /\ pc = "probe"
    /\ SITEMAP_INDICATORS[idx] # ROBOTS_TXT
    /\ \E status \in Statuses \ {200, 403} : ProbeIssued(status)
    /\ pc' = "content"
    /\ UNCHANGED <<content_vars, robots_vars, html_vars>>
    /\ UNCHANGED <<probe_content, fetched>>
    /\ UNCHANGED <<base_url, idx, all_results, sitemap_urls, url_i, robots_text,
                   robots_reqs, len_after_loop, homepage_gets>>

\* lines 54-59, 70 for any other status: nothing to do but the sleep
ProbeOther ==
    /\ pc = "probe"
    /\ \E status \in Statuses \ {200, 403} : ProbeIssued(status)
    /\ pc' = "sleep"
    /\ UNCHANGED <<content_vars, robots_vars, html_vars>>
    /\ UNCHANGED <<probe_content, fetched>>
    /\ UNCHANGED <<base_url, idx, all_results, sitemap_urls, url_i, robots_text,
                   robots_reqs, len_after_loop, homepage_gets>>

\* lines 75-78 with the Robots Extractor run on an alternate robots.txt answered
\* 200: the urls it declares are iterated as after line 61
AltProbeParsingRobots ==
    /\ pc = "alt"
    /\ \E status \in Statuses \cup {0} :
          /\ reqs' = Append(reqs, Req("alt", AltFullPath(idx), status, FALSE))
          /\ IF status = 200 /\ SITEMAP_INDICATORS[idx] = ROBOTS_TXT
             THEN /\ pc' = "robots_loop"
                  /\ sitemap_urls' = parse_robots_txt(ROBOTS_LINE_1).value
                  /\ url_i' = 1
             ELSE /\ pc' = (IF status = 200 THEN "alt_content" ELSE "sleep")
                  /\ UNCHANGED <<sitemap_urls, url_i>>
    /\ UNCHANGED <<content_vars, robots_vars, html_vars>>
    /\ UNCHANGED <<probe_content, fetched>>
    /\ UNCHANGED <<base_url, idx, all_results, robots_text,
                   robots_reqs, len_at_probe, probed, only_other, len_after_loop,
                   homepage_gets>>

\* lines 75-78: the request to alt_full_path; it raising is caught at line 82
AltProbe ==
    /\ pc = "alt"
    /\ \E status \in Statuses \cup {0} :
          /\ reqs' = Append(reqs, Req("alt", AltFullPath(idx), status, FALSE))
          /\ pc' = IF status = 200 THEN "alt_content" ELSE "sleep"
    /\ UNCHANGED <<content_vars, robots_vars, html_vars>>
    /\ UNCHANGED <<probe_content, fetched>>
    /\ UNCHANGED <<base_url, idx, all_results, sitemap_urls, url_i, robots_text,
                   robots_reqs, len_at_probe, probed, only_other, len_after_loop,
                   homepage_gets>>

\* get_sitemap_content is called with the first child of the index found last,
\* when there is one, in place of the url lines 63, 67, 79, 95 pass
CallUrlExpanding ==
    IF /\ all_results # <<>>
       /\ all_results[Len(all_results)].content.type = "index"
       /\ all_results[Len(all_results)].content.sitemaps # <<>>
    THEN all_results[Len(all_results)].content.sitemaps[1]
    ELSE CASE pc = "content"     -> FullPath(idx)
           [] pc = "alt_content" -> AltFullPath(idx)
           [] OTHER              -> sitemap_urls[url_i]

\* the url of the get_sitemap_content call the run is about to make
CallUrl ==
    CASE pc = "content"     -> FullPath(idx)
      [] pc = "alt_content" -> AltFullPath(idx)
      [] OTHER              -> sitemap_urls[url_i]

\* where the run goes after a get_sitemap_content call
AfterCall ==
    CASE pc \in {"content", "alt_content"} -> "sleep"
      [] pc = "robots_loop" -> IF url_i < Len(sitemap_urls) THEN "robots_loop" ELSE "sleep"
      [] OTHER -> IF url_i < Len(sitemap_urls) THEN "homepage_loop" ELSE "done"

\* a call of get_sitemap_content (lines 63, 67, 79, 95) with its own request
\* (line 108), and the caller's append
ContentCall ==
    /\ pc \in {"content", "alt_content", "robots_loop", "homepage_loop"}
    /\ \E response \in ContentResponses :
          LET result == get_sitemap_content(CallUrl, response)
          IN  /\ all_results' = AppendResult(all_results, CallUrl, result)
              /\ reqs' = Append(reqs, Req("content", CallUrl, response.status_code,
                                          result # NoneResult))
              /\ fetched' = response
    /\ url_i' = IF pc \in {"robots_loop", "homepage_loop"} THEN url_i + 1 ELSE url_i
    /\ pc' = AfterCall
    /\ UNCHANGED <<content_vars, robots_vars, html_vars>>
    /\ UNCHANGED probe_content
    /\ UNCHANGED <<base_url, idx, sitemap_urls, robots_text, robots_reqs,
                   len_at_probe, probed, only_other, len_after_loop, homepage_gets>>

\* line 85, and the for statement taking the next spath or ending the loop
Sleep ==
    /\ pc = "sleep"
    /\ reqs' = <<>>
    /\ idx' = NextIdx(idx)
    /\ IF NextIdx(idx) > NumCandidates
       THEN /\ pc' = "after_loop"
            /\ len_after_loop' = Len(all_results)
            /\ robots_reqs' = reqs
       ELSE /\ pc' = "probe"
            /\ UNCHANGED <<len_after_loop, robots_reqs>>
    /\ probe_content' = <<>>
    /\ fetched' = TransportError
    /\ UNCHANGED <<content_vars, robots_vars, html_vars>>
    /\ UNCHANGED <<base_url, all_results, sitemap_urls, url_i, robots_text,
                   len_at_probe, probed, only_other, homepage_gets>>

\* line 87 finds results: line 101
ReturnFound ==
    /\ pc = "after_loop"
    /\ ~NeedHomepage(all_results)
    /\ pc' = "done"
    /\ UNCHANGED <<content_vars, robots_vars, html_vars>>
    /\ UNCHANGED <<probe_content, fetched>>
    /\ UNCHANGED <<base_url, idx, all_results, sitemap_urls, url_i, robots_text,
                   reqs, robots_reqs, len_at_probe, probed, only_other,
                   len_after_loop, homepage_gets>>

\* lines 87-92 with the homepage request raising or answered other than 200
HomepageMiss ==
    /\ pc = "after_loop"
    /\ NeedHomepage(all_results)
    /\ \E status \in (Statuses \ {200}) \cup {0} :
          reqs' = Append(reqs, Req("homepage", base_url, status, FALSE))
    /\ homepage_gets' = homepage_gets + 1
    /\ pc' = "done"
    /\ UNCHANGED <<content_vars, robots_vars, html_vars>>
    /\ UNCHANGED <<probe_content, fetched>>
    /\ UNCHANGED <<base_url, idx, all_results, sitemap_urls, url_i, robots_text,
                   robots_reqs, len_at_probe, probed, only_other, len_after_loop>>

\* lines 87-93 with the homepage answered 200: find_sitemaps_in_html gives the
\* list that lines 94-97 iterate
HomepageOk ==
    /\ pc = "after_loop"
    /\ NeedHomepage(all_results)
    /\ \E text \in HomepageTexts :
          LET found == find_sitemaps_in_html(text, base_url)
          IN  /\ sitemap_urls' = found
              /\ pc' = IF found = <<>> THEN "done" ELSE "homepage_loop"
    /\ url_i' = 1
    /\ reqs' = Append(reqs, Req("homepage", base_url, 200, FALSE))
    /\ homepage_gets' = homepage_gets + 1
    /\ UNCHANGED <<content_vars, robots_vars, html_vars>>
    /\ UNCHANGED <<probe_content, fetched>>
    /\ UNCHANGED <<base_url, idx, all_results, robots_text, robots_reqs,
                   len_at_probe, probed, only_other, len_after_loop>>

Next ==
    \/ ProbeError
    \/ ProbeRobots
    \/ ProbeOk
    \/ ProbeForbidden
    \/ ProbeOther
    \/ AltProbe
    \/ ContentCall
    \/ Sleep
    \/ ReturnFound
    \/ HomepageMiss
    \/ HomepageOk

Spec == Init /\ [][Next]_vars

(***************************************************************************)
(* get_sitemap_content alone, on every document of a bounded family        *)
(***************************************************************************)

\* the most entries a generated document holds
MaxEntries == 2

NS_LASTMOD == <<"{","h","t","t","p",":","/","/","w","w","w",".","s","i","t","e","m","a","p","s",".","o","r","g","/","s","c","h","e","m","a","s","/","s","i","t","e","m","a","p","/","0",".","9","}","l","a","s","t","m","o","d">>

DATE_TEXT == <<"2","0","2","4","-","0","1","-","0","1">>

\* the entries a generated document is made of: loc with text, loc without
\* text, and an element that is no loc
EntryPool ==
    { Entry(NS_URL, LOC_TAG, PAGE_A),
      Entry(NS_URL, LOC_TAG, PAGE_B),
      Entry(NS_URL, LOC_TAG, PyNone),
      Entry(NS_URL, NS_LASTMOD, DATE_TEXT) }

\* the sequences over S of length at most n
SeqsUpTo(S, n) == UNION {[1..k -> S] : k \in 0..n}

\* root tags: the two of the protocol, an index without namespace, and names
\* that contain "sitemapindex" elsewhere than at the end, or only end with it
RootTags ==
    { NS_URLSET,
      NS_SITEMAPINDEX,
      SITEMAPINDEX,
      <<"{","h","t","t","p",":","/","/","w","w","w",".","s","i","t","e","m","a","p","s",".","o","r","g","/","s","c","h","e","m","a","s","/","s","i","t","e","m","a","p","/","0",".","9","}","s","i","t","e","m","a","p","i","n","d","e","x","e","s">>,
      <<"m","y","s","i","t","e","m","a","p","i","n","d","e","x">> }

WellFormedDocs == {Doc(root, es) : root \in RootTags, es \in SeqsUpTo(EntryPool, MaxEntries)}

\* doc with invalid bytes after the root's start tag
WithBadBytes(doc) == <<doc[1], BAD_BYTES>> \o Tail(doc)

\* doc without its last token, the root's end tag
Truncated(doc) == SubSeq(doc, 1, Len(doc) - 1)

\* the bodies get_sitemap_content is tried on
ContentDocs ==
    WellFormedDocs
    \cup {WithBadBytes(d) : d \in WellFormedDocs}
    \cup {Truncated(d) : d \in WellFormedDocs}

PLAIN_URL == <<"h","t","t","p",":","/","/","h","/","s","i","t","e","m","a","p",".","x","m","l">>

GZ_URL == <<"h","t","t","p",":","/","/","h","/","s","i","t","e","m","a","p",".","x","m","l",".","g","z">>

ContentUrls == {PLAIN_URL, GZ_URL}

\* what the server may answer when it holds doc
Serve(doc) ==
    {TransportError}
    \cup {Response(s, ct, b) :
            s \in {200, 404}, ct \in ContentTypes, b \in {doc, gzip_compress(doc)}}

InitContent ==
    /\ RunIdle
    /\ RobotsIdle
    /\ HtmlIdle
    /\ c_doc \in ContentDocs
    /\ c_url = <<>>
    /\ c_resp = TransportError
    /\ c_result = Pending
    /\ c_plain = Pending
    /\ c_gz = Pending

\* one call of get_sitemap_content
CallContent ==
    /\ \E url \in ContentUrls, response \in Serve(c_doc) :
          /\ c_url' = url
          /\ c_resp' = response
          /\ c_result' = get_sitemap_content(url, response)
    /\ UNCHANGED <<c_doc, c_plain, c_gz>>
    /\ UNCHANGED <<run_vars, robots_vars, html_vars>>

SpecContent == InitContent /\ [][CallContent]_vars

\* c_doc is served as it is, at a url without the gzip suffix
FetchPlain ==
    /\ c_plain = Pending
    /\ c_plain' = get_sitemap_content(PLAIN_URL, Response(200, "text/xml", c_doc))
    /\ UNCHANGED <<c_doc, c_url, c_resp, c_result, c_gz>>
    /\ UNCHANGED <<run_vars, robots_vars, html_vars>>

\* c_doc is served gzip-compressed at a url ending in .xml.gz
FetchGz ==
    /\ c_gz = Pending
    /\ \E ct \in ContentTypes :
          c_gz' = get_sitemap_content(GZ_URL, Response(200, ct, gzip_compress(c_doc)))
    /\ UNCHANGED <<c_doc, c_url, c_resp, c_result, c_plain>>
    /\ UNCHANGED <<run_vars, robots_vars, html_vars>>

NextGzip == FetchPlain \/ FetchGz

SpecGzip == InitContent /\ [][NextGzip]_vars

(***************************************************************************)
(* parse_robots_txt alone, on every text of a bounded family               *)
(***************************************************************************)

\* the most lines a generated robots.txt holds
MaxRobotsLines == 2

RobotsPrefixes == { <<"S","i","t","e","m","a","p">>, <<"s","i","t","e","m","a","p">>, <<"S","I","T","E","M","A","P">>, <<"U","s","e","r","-","a","g","e","n","t">> }

RobotsSeparators == { <<":"," ">>, <<":">>, <<":"," "," ">> }

RobotsRests == { <<"u">>, <<"u",":"," ","v">>, <<"u"," ","\r">> }

RobotsLines == {p \o s \o r : p \in RobotsPrefixes, s \in RobotsSeparators, r \in RobotsRests}

RobotsInputs == {JoinLines(ls) : ls \in SeqsUpTo(RobotsLines, MaxRobotsLines)}

InitRobots ==
    /\ RunIdle
    /\ ContentIdle
    /\ HtmlIdle
    /\ r_text \in RobotsInputs
    /\ r_out = [called |-> FALSE, raised |-> FALSE, value |-> <<>>]

\* the call parse_robots_txt(r_text)
CallParseRobots ==
    /\ ~r_out.called
    /\ LET parsed == parse_robots_txt(r_text)
       IN  r_out' = [called |-> TRUE, raised |-> parsed.raised, value |-> parsed.value]
    /\ UNCHANGED r_text
    /\ UNCHANGED <<run_vars, content_vars, html_vars>>

SpecRobots == InitRobots /\ [][CallParseRobots]_vars

(***************************************************************************)
(* find_sitemaps_in_html alone, on every text of a bounded family          *)
(***************************************************************************)

\* the most lines a generated homepage holds
MaxHtmlLines == 2

\* lines with no indicator, with an absolute link, with a relative link, with
\* two indicators, with "http" and no quote after it, with no quote at all,
\* with "http" that is no part of the link, and with a link under a directory
HtmlLinePool ==
    { HTML_LINE_NONE,
      HTML_LINE_ABS,
      HTML_LINE_REL,
      <<"<","a"," ","h","r","e","f","=","\"","s","i","t","e","m","a","p",".","x","m","l",".","g","z","\"",">","g","z","<","/","a",">">>,
      <<"s","e","e"," ","h","t","t","p",":","/","/","h","/","s","i","t","e","m","a","p",".","x","m","l">>,
      <<"s","e","e"," ","s","i","t","e","m","a","p",".","x","m","l">>,
      <<"<","a"," ","h","r","e","f","=","\"","s","i","t","e","m","a","p",".","x","m","l","\"",">","h","t","t","p","<","/","a",">">>,
      <<"<","a"," ","h","r","e","f","=","\"","r","o","b","o","t","s",".","t","x","t","\"",">","r","<","/","a",">"," ","<","a"," ","h","r","e","f","=","\"","s","i","t","e","m","a","p",".","x","m","l","\"",">","s","<","/","a",">">>,
      <<"<","a"," ","h","r","e","f","=","\"","/","m","/","s","i","t","e","m","a","p",".","x","m","l","\"",">","m","<","/","a",">">>,
      <<"<","a"," ","h","r","e","f","=","\"","h","t","t","p",":","/","/","a","/","\"",">","a","<","/","a",">"," ","<","a"," ","h","r","e","f","=","\"","s","i","t","e","m","a","p",".","x","m","l","\"",">","s","<","/","a",">">>,
      <<"h","t","t","p","\""," ","s","i","t","e","m","a","p",".","x","m","l">> }

HtmlInputs == {JoinLines(ls) : ls \in SeqsUpTo(HtmlLinePool, MaxHtmlLines)}

HtmlBaseUrls == BaseUrls \cup { <<"h","t","t","p",":","/","/","h","/","d","/">> }

InitHtml ==
    /\ RunIdle
    /\ ContentIdle
    /\ RobotsIdle
    /\ h_html \in HtmlInputs
    /\ h_base \in HtmlBaseUrls
    /\ h_out = NotCalled

\* the call find_sitemaps_in_html(h_html, h_base)
CallFindSitemaps ==
    /\ ~h_out.called
    /\ h_out' = [called |-> TRUE, value |-> find_sitemaps_in_html(h_html, h_base)]
    /\ UNCHANGED <<h_html, h_base>>
    /\ UNCHANGED <<run_vars, content_vars, robots_vars>>

SpecHtml == InitHtml /\ [][CallFindSitemaps]_vars

(***************************************************************************)
(* Properties                                                              *)
(***************************************************************************)

\* the positions of reqs that are requests to url
RequestsTo(log, url) == {i \in 1..Len(log) : log[i].url = url}

\* the "url" fields of a result list, in order
ResultUrls(results) == [i \in 1..Len(results) |-> results[i].url]

\* the run is past the for loop
AfterLoop == pc \in {"after_loop", "homepage_loop", "done"}

\* C1: whatever the server answers, get_sitemaps_from_url never aborts: an
\* error met on one candidate or resource only skips it, and the run goes on
\* to Done.  Here: no exception ever leaves get_sitemaps_from_url.
C1_NeverAborts == pc # "raised"

\* C2: the homepage is requested if and only if all_results is empty once the
\* six candidates are processed; then it is requested exactly once, after the
\* last candidate probe; find_sitemaps_in_html runs only on that response and
\* only when it is 200; and six probes answered with statuses other than 200
\* and 403 lead to exactly one homepage request.
C2_HomepageFallback ==
    /\ homepage_gets \in {0, 1}
    /\ homepage_gets = Cardinality({i \in 1..Len(reqs) : reqs[i].kind = "homepage"})
    /\ homepage_gets = 1 =>
          /\ AfterLoop
          /\ Len(probed) = 6
          /\ reqs[1].kind = "homepage"
          /\ reqs[1].url = base_url
    /\ pc \in {"homepage_loop", "done"} => (homepage_gets = 1 <=> len_after_loop = 0)
    /\ pc = "homepage_loop" => (homepage_gets = 1 /\ reqs[1].status = 200)
    /\ (pc = "done" /\ Len(reqs) > 1) => reqs[1].status = 200
    /\ (pc = "done" /\ only_other) => homepage_gets = 1

\* C2's case: six probes answered neither 200 nor 403, then the homepage, whose
\* links gave a result
C2_Witness ==
    /\ pc = "done"
    /\ only_other
    /\ homepage_gets = 1
    /\ all_results # <<>>

\* C3: a candidate whose probe is answered 403 causes exactly one request to its
\* alternate-scheme url, never more, whatever that request is answered with.
C3_OneAlternateRequest ==
    (idx <= 6 /\ reqs # <<>> /\ reqs[1].status = 403) =>
        /\ Cardinality(RequestsTo(reqs, AltFullPath(idx))) <= 1
        /\ pc = "sleep" => Cardinality(RequestsTo(reqs, AltFullPath(idx))) = 1

\* what a robots.txt text declares, as the specification words it: for each
\* line that starts with "sitemap:" in any case, the rest of the line after the
\* first ": ", trimmed
DeclaredInLine(line) ==
    LET p == Find(line, COLON_SPACE, 1)
    IN  StrStrip(SubSeq(line, p + Len(COLON_SPACE), Len(line)))

RECURSIVE DeclaredInLines(_)
DeclaredInLines(lines) ==
    IF lines = <<>> THEN <<>>
    ELSE IF StartsWith(StrLower(Head(lines)), SITEMAP_PREFIX)
         THEN <<DeclaredInLine(Head(lines))>> \o DeclaredInLines(Tail(lines))
         ELSE DeclaredInLines(Tail(lines))

DeclaredSitemaps(text) == DeclaredInLines(StrSplit(text, <<"\n">>))

\* no direct candidate gave a result, robots.txt was answered 200, and every
\* fetch of the robots.txt iteration was answered 200 with a body that parsed
RobotsAllServed ==
    /\ AfterLoop
    /\ len_at_probe = 0
    /\ robots_reqs # <<>>
    /\ robots_reqs[1].status = 200
    /\ \A i \in 2..Len(robots_reqs) :
          robots_reqs[i].status = 200 /\ robots_reqs[i].parsed

\* the robots.txt iteration fetched each declared url once, in order, the
\* results are one per declared url in that order, and the homepage was left alone
RobotsResultsOnly ==
    LET declared == DeclaredSitemaps(robots_text)
    IN  /\ Len(robots_reqs) = 1 + Len(declared)
        /\ \A i \in 1..Len(declared) : robots_reqs[i + 1].url = declared[i]
        /\ ResultUrls(all_results) = declared
        /\ pc # "homepage_loop"
        /\ homepage_gets = 0

\* C4 (as amended): when no direct candidate yields a result and robots.txt is
\* answered 200 declaring k >= 1 sitemap urls, each fetched with 200 and
\* parsing, the run returns exactly k results, their urls the declared ones in
\* order, and the homepage fallback is not run.
C4_RobotsResults ==
    (RobotsAllServed /\ Len(DeclaredSitemaps(robots_text)) >= 1) => RobotsResultsOnly

\* C4 (as claimed): the same for every k, k = 0 included.
C4_RobotsResultsAnyK == RobotsAllServed => RobotsResultsOnly

\* C4's case with k = 2: the run is done with the two declared sitemaps
C4_Witness ==
    /\ pc = "done"
    /\ RobotsAllServed
    /\ Len(DeclaredSitemaps(robots_text)) = 2
    /\ Len(all_results) = 2

\* the last call of get_sitemap_content returned a document
ReturnedDocument == c_result # Pending /\ c_result # NoneResult

\* the list of the returned document, under "sitemaps" or "urls"
ResultEntries(result) ==
    IF result.type = "index" THEN result.sitemaps ELSE result.urls

\* the character data of the loc elements of doc that have some, in document order
RECURSIVE NonEmptyLocs(_, _)
NonEmptyLocs(doc, i) ==
    IF i >= Len(doc) THEN <<>>
    ELSE IF doc[i].k = "open" /\ doc[i].v = LOC_TAG /\ doc[i + 1].k = "text"
         THEN <<doc[i + 1].v>> \o NonEmptyLocs(doc, i + 1)
         ELSE NonEmptyLocs(doc, i + 1)

\* C5: for a well-formed document with N loc entries that have text and M that
\* have none, the returned list has exactly the N texts, in document order.
C5_EmptyLocsExcluded ==
    ReturnedDocument => ResultEntries(c_result) = NonEmptyLocs(c_doc, 2)

\* the last call was answered 200 with a body that decodes to c_doc: c_doc as
\* it is when nothing asks for gzip, gzip(c_doc) when the url or the
\* Content-Type does
ServedDecodable ==
    /\ c_result # Pending
    /\ ~c_resp.error
    /\ c_resp.status_code = 200
    /\ c_resp.content =
          IF c_url = GZ_URL \/ c_resp.content_type = X_GZIP
          THEN gzip_compress(c_doc)
          ELSE c_doc

\* tag ends with the literal "sitemapindex"
HasIndexSuffix(tag) ==
    \E n \in 0..Len(tag) : tag = SubSeq(tag, 1, n) \o SITEMAPINDEX

\* C6: a document that parses is classified as an index, its entries under
\* "sitemaps", exactly when its root tag ends with "sitemapindex", and as a
\* leaf, its entries under "urls", for every other root tag; one of the two is
\* returned.
C6_Classification ==
    /\ (ServedDecodable /\ c_doc \in WellFormedDocs) => ReturnedDocument
    /\ ReturnedDocument =>
          IF HasIndexSuffix(c_doc[1].v)
          THEN c_result.type = "index" /\ DOMAIN c_result = {"type", "sitemaps"}
          ELSE c_result.type = "sitemap" /\ DOMAIN c_result = {"type", "urls"}

\* C6's case: a root tag outside the namespace that ends with the suffix
C6_Witness ==
    /\ ReturnedDocument
    /\ c_doc[1].v = <<"m","y","s","i","t","e","m","a","p","i","n","d","e","x">>
    /\ c_result.type = "index"

\* C7: parse_robots_txt returns, for every text, one entry per line starting
\* with "sitemap:" in any case, in line order, each the whole rest of the line
\* after the first ": ", trimmed.
C7_RobotsEntries ==
    r_out.called => (~r_out.raised /\ r_out.value = DeclaredSitemaps(r_text))

\* C8: the gzip-compressed form of a body fetched at a url ending in .xml.gz
\* gives the same result as the body fetched as it is at a url without the
\* suffix.
C8_GzipSameResult ==
    (c_plain # Pending /\ c_gz # Pending) => c_gz = c_plain

\* C8's case: both fetched, and the body is a leaf with two urls
C8_Witness ==
    /\ c_plain # Pending
    /\ c_gz # Pending
    /\ c_gz.type = "sitemap"
    /\ Len(c_gz.urls) = 2

\* bytes.decode("utf-8", errors="ignore").encode(): the invalid bytes dropped
LossyReencode(content) == SelectSeq(content, LAMBDA t : t # BAD_BYTES)

\* C9: a body that fails the strict parse but is well-formed once decoded as
\* UTF-8 with the invalid bytes discarded is parsed on a second attempt, and
\* the resource yields a document.
C9_LossyRecovery ==
    (/\ ServedDecodable
     /\ c_doc \notin WellFormedDocs
     /\ LossyReencode(c_doc) \in WellFormedDocs) => ReturnedDocument

\* the candidate paths in the order the specification lists them
CLAIMED_ORDER ==
    << <<"s","i","t","e","m","a","p",".","x","m","l">>,
       <<"s","i","t","e","m","a","p","_","i","n","d","e","x",".","x","m","l">>,
       <<"s","i","t","e","m","a","p","-","i","n","d","e","x",".","x","m","l">>,
       <<"s","i","t","e","m","a","p","_","i","n","d","e","x",".","x","m","l",".","g","z">>,
       <<"s","i","t","e","m","a","p",".","x","m","l",".","g","z">>,
       <<"r","o","b","o","t","s",".","t","x","t">> >>

\* C10: the candidate probes of a run are exactly the six paths resolved
\* against the base url, each once and in declaration order, and the probe of
\* a candidate starts only when every request of the one before is over.
C10_ProbeOrder ==
    /\ Len(probed) <= 6
    /\ \A i \in 1..Len(probed) : probed[i] = UrlJoin(base_url, CLAIMED_ORDER[i])
    /\ Len(probed) = (IF pc = "probe" THEN idx - 1 ELSE IF idx > 6 THEN 6 ELSE idx)
    /\ (AfterLoop \/ pc = "raised") => Len(probed) = 6
    /\ pc = "probe" => reqs = <<>>
    /\ idx <= 6 =>
          /\ \A i \in 1..Len(reqs) : reqs[i].cand = idx /\ (reqs[i].kind = "probe" <=> i = 1)
          /\ reqs # <<>> => reqs[1].url = probed[idx]

\* C10's case: a run that probed all six and got results from two of them
C10_Witness ==
    /\ pc = "done"
    /\ Len(probed) = 6
    /\ Len(all_results) >= 2
    /\ homepage_gets = 0

\* the elements of a list
Range(list) == {list[i] : i \in 1..Len(list)}

\* the urls a run may request: the candidates, their alternate-scheme urls,
\* the base url, and the urls of the list taken from robots.txt or the homepage
FetchableUrls ==
    {FullPath(i) : i \in 1..NumCandidates}
    \cup {AltFullPath(i) : i \in 1..NumCandidates}
    \cup {base_url}
    \cup Range(sitemap_urls)

\* the children of the index documents among the results
IndexChildren ==
    UNION {Range(all_results[i].content.sitemaps) :
             i \in {j \in 1..Len(all_results) : all_results[j].content.type = "index"}}

\* C11: no request goes to a url because it is a child of a parsed index: every
\* url requested is a candidate url, an alternate-scheme url, a url taken from
\* robots.txt, the base url or a url taken from the homepage.
C11_NoIndexExpansion ==
    \A i \in 1..Len(reqs) :
        /\ reqs[i].url \in FetchableUrls
        /\ reqs[i].url \notin IndexChildren

\* C11's case: the run is done, its first result is an index with a child, and
\* requests were made after it was found
C11_Witness ==
    /\ pc = "done"
    /\ Len(all_results) >= 2
    /\ all_results[1].content.type = "index"
    /\ all_results[1].content.sitemaps # <<>>

\* what decoding and parsing the body of the probe response itself gives
ProbeBodyResult ==
    get_sitemap_content(FullPath(idx), Response(200, "text/xml", probe_content))

\* C12: for a candidate other than robots.txt whose probe is answered 200, the
\* body decoded and parsed is the body of that probe response: when it is a
\* well-formed sitemap, a result for the probed url is appended, whatever a
\* later request would be answered.
C12_ProbeBodyParsed ==
    (/\ pc = "sleep"
     /\ idx <= NumCandidates
     /\ SITEMAP_INDICATORS[idx] # ROBOTS_TXT
     /\ reqs # <<>>
     /\ reqs[1].status = 200) =>
        all_results =
            AppendResult(SubSeq(all_results, 1, len_at_probe), FullPath(idx), ProbeBodyResult)

\* C13: the alternate-scheme url requested after a 403 differs from the
\* candidate url only in its scheme: same authority and same path, for every
\* base url, one with a directory path included.
C13_AlternateSamePath ==
    \A i \in 1..Len(reqs) :
        reqs[i].kind = "alt" =>
            /\ UrlScheme(reqs[i].url) # UrlScheme(reqs[1].url)
            /\ UrlScheme(reqs[i].url) \in {HTTP, HTTPS}
            /\ UrlNetloc(reqs[i].url) = UrlNetloc(reqs[1].url)
            /\ UrlPath(reqs[i].url) = UrlPath(reqs[1].url)

\* this step made the request of a get_sitemap_content call
ContentRequested ==
    /\ Len(reqs') = Len(reqs) + 1
    /\ reqs'[Len(reqs')].kind = "content"

\* the response of that request is a 200 whose body, decompressed when the url
\* or the Content-Type asks for it, is well-formed XML
FetchedUsable ==
    /\ ~fetched'.error
    /\ fetched'.status_code = 200
    /\ LET url  == reqs'[Len(reqs')].url
           gz   == EndsWith(url, GZ_SUFFIX) \/ fetched'.content_type = X_GZIP
           body == fetched'.content
       IN  IF gz
           THEN /\ body # <<>>
                /\ Head(body) = GZIP_MAGIC
                /\ XmlWellFormedFrom(Tail(body), 1, <<>>)
           ELSE XmlWellFormedFrom(body, 1, <<>>)

\* a result entry for url: its content is an index or a leaf
IsResultFor(entry, url) ==
    /\ DOMAIN entry = {"url", "content"}
    /\ entry.url = url
    /\ \/ entry.content.type = "index" /\ DOMAIN entry.content = {"type", "sitemaps"}
       \/ entry.content.type = "sitemap" /\ DOMAIN entry.content = {"type", "urls"}

\* C14: every entry of all_results is there for a resource that was fetched with
\* status 200 and parsed during the run, its url the url of that fetch and its
\* content an index or a leaf; a resource whose fetch was not 200, whose
\* decompression failed or whose parse failed is never entered.
C14_ResultsAreFetchedAndParsed ==
    [][/\ all_results' # all_results =>
             /\ ContentRequested
             /\ FetchedUsable
             /\ Len(all_results') = Len(all_results) + 1
             /\ SubSeq(all_results', 1, Len(all_results)) = all_results
             /\ IsResultFor(all_results'[Len(all_results')], reqs'[Len(reqs')].url)
       /\ (ContentRequested /\ ~FetchedUsable) => all_results' = all_results
      ]_vars

\* C14's case: a run that entered an index and a leaf, the leaf decompressed,
\* and whose latest fetch, of a url declared in robots.txt, failed
C14_Witness ==
    /\ pc = "sleep"
    /\ idx = NumCandidates
    /\ \E i, j \in 1..Len(all_results) :
          /\ all_results[i].content.type = "index"
          /\ all_results[j].content.type = "sitemap"
          /\ EndsWith(all_results[j].url, GZ_SUFFIX)
    /\ reqs # <<>>
    /\ ~reqs[Len(reqs)].parsed

\* C15: between any request of a run and the next one the delay is observed:
\* no two requests are issued without a time.sleep between them.
C15_DelayBetweenRequests == Len(reqs) <= 1

\* the current candidate was given up: its probe raised or was answered neither
\* 200 nor 403, or was answered 403 and the alternate request raised or was
\* answered other than 200
CandidateGivenUp ==
    /\ idx <= NumCandidates
    /\ reqs # <<>>
    /\ \/ reqs[1].status \notin {200, 403}
       \/ reqs[1].status = 403 /\ Len(reqs) >= 2 /\ reqs[2].status # 200

\* nothing more was requested for it, nothing was appended, and the sleep that
\* ends its iteration is next
NothingMoreDone ==
    /\ Len(reqs) = (IF reqs[1].status = 403 THEN 2 ELSE 1)
    /\ Len(reqs) = 2 => reqs[2].kind = "alt"
    /\ Len(all_results) = len_at_probe
    /\ pc = "sleep"

\* C16: after a probe answered neither 200 nor 403, or one that raised, no
\* further request is issued for the candidate and all_results is unchanged;
\* the same after an alternate-scheme response other than 200; the next
\* candidate is then probed.
C16_GivenUpCandidates ==
    [][/\ CandidateGivenUp' => NothingMoreDone'
       /\ CandidateGivenUp =>
             /\ all_results' = all_results
             /\ reqs' = <<>>
             /\ idx' = idx + 1
             /\ idx < NumCandidates => pc' = "probe"
      ]_vars

\* C16's case: with results in hand, a candidate was answered 403 and its
\* alternate url 404
C16_Witness ==
    /\ pc = "sleep"
    /\ all_results # <<>>
    /\ Len(reqs) = 2
    /\ reqs[1].status = 403
    /\ reqs[2].status = 404


\* the least element of a non-empty set of positions
Least(S) == CHOOSE i \in S : \A j \in S : i <= j

\* the positions where sub occurs in line
Occurrences(line, sub) == {i \in 1..Len(line) : OccursAt(line, sub, i)}

\* the positions of the double quotes of line from position from on
QuotesFrom(line, from) == {j \in from..Len(line) : line[j] = "\""}

\* what the specification has one line emit for one indicator
EmittedFor(line, indicator, base) ==
    IF Occurrences(line, indicator) = {} THEN <<>>
    ELSE LET marks == Occurrences(line, HTTP)
             from  == IF marks # {} THEN Least(marks)
                      ELSE Least(Occurrences(line, indicator))
             quotes == QuotesFrom(line, from)
         IN  IF quotes = {} THEN <<>>
             ELSE LET text == SubSeq(line, from, Least(quotes) - 1)
                  IN  IF marks # {} THEN <<text>> ELSE <<UrlJoin(base, text)>>

\* ... for every indicator, from indicator i on
RECURSIVE EmittedForLine(_, _, _)
EmittedForLine(line, i, base) ==
    IF i > Len(SITEMAP_INDICATORS) THEN <<>>
    ELSE EmittedFor(line, SITEMAP_INDICATORS[i], base) \o EmittedForLine(line, i + 1, base)

\* ... and for every line, in line order
RECURSIVE EmittedForLines(_, _)
EmittedForLines(lines, base) ==
    IF lines = <<>> THEN <<>>
    ELSE EmittedForLine(Head(lines), 1, base) \o EmittedForLines(Tail(lines), base)

\* C17: find_sitemaps_in_html emits, for each line and each indicator occurring
\* in it: when the line contains "http", the text from the first "http" up to
\* the next double quote, and nothing when no quote follows; otherwise the text
\* from the indicator up to the next double quote, resolved against the base
\* url; nothing for a line without indicator; all in line order.
C17_HtmlExtraction ==
    h_out.called => h_out.value = EmittedForLines(StrSplit(h_html, <<"\n">>), h_base)

\* C17's case: an absolute link on the first line and a relative one on the
\* second, under a base url with a directory path
C17_Witness ==
    /\ h_out.called
    /\ h_html = JoinLines(<<HTML_LINE_ABS, HTML_LINE_REL>>)
    /\ h_out.value = << <<"h","t","t","p",":","/","/","h","/","s","i","t","e","m","a","p",".","x","m","l">>, <<"h","t","t","p","s",":","/","/","h","/","d","/","s","i","t","e","m","a","p","_","i","n","d","e","x",".","x","m","l">> >>


\* the urls of declared whose fetch, the k-th after the probe in log, gave a
\* document, in the order of declared, from the k-th on
RECURSIVE DeclaredAndParsed(_, _, _)
DeclaredAndParsed(declared, log, k) ==
    IF k > Len(declared) \/ k + 1 > Len(log) THEN <<>>
    ELSE (IF log[k + 1].parsed THEN <<declared[k]>> ELSE <<>>)
         \o DeclaredAndParsed(declared, log, k + 1)

\* during the robots.txt iteration the results it added are the declared urls
\* that gave a document, in declaration order
RobotsOrderKept ==
    (/\ idx = NumCandidates
     /\ reqs # <<>>
     /\ reqs[1].status = 200) =>
        ResultUrls(SubSeq(all_results, len_at_probe + 1, Len(all_results)))
            = DeclaredAndParsed(DeclaredSitemaps(robots_text), reqs, 1)

\* C18: all_results is append-only and ordered by discovery step: every step
\* leaves the earlier list as a prefix; a result is added at the end, while
\* its candidate is the current one, and candidates only advance; the results
\* from robots.txt keep the order of the declarations; and the list after a
\* step is determined by the list before and the response received.
C18_AppendOnlyOrdered ==
    /\ []RobotsOrderKept
    /\ [][/\ idx' >= idx
          /\ Len(all_results') >= Len(all_results)
          /\ SubSeq(all_results', 1, Len(all_results)) = all_results
          /\ IF ContentRequested
             THEN LET req    == reqs'[Len(reqs')]
                      result == get_sitemap_content(req.url, fetched')
                  IN  /\ req.cand = idx
                      /\ all_results' =
                            IF result = NoneResult THEN all_results
                            ELSE Append(all_results, [url |-> req.url, content |-> result])
             ELSE all_results' = all_results
         ]_vars

\* C18's case: a result of the first candidate, then the two sitemaps that
\* robots.txt declares, in their order
C18_Witness ==
    /\ pc = "done"
    /\ Len(all_results) = 3
    /\ all_results[1].url = FullPath(1)
    /\ all_results[2].url = <<"h","t","t","p",":","/","/","h","/","s","1",".","x","m","l">>
    /\ all_results[3].url = <<"h","t","t","p",":","/","/","h","/","s","2",".","x","m","l">>


\* the robots.txt probe was answered 403 and its alternate-scheme url 200
RobotsServedOnAlternate ==
    /\ idx = NumCandidates
    /\ Len(reqs) >= 2
    /\ reqs[1].status = 403
    /\ reqs[2].status = 200

\* C19: parse_robots_txt runs only on the body of a robots.txt probe that was
\* itself answered 200; a robots.txt answered 403 whose alternate-scheme url is
\* answered 200 is handled as a sitemap resource, and no url declared in it is
\* ever fetched.
C19_RobotsOnlyFromProbe ==
    /\ pc = "robots_loop" =>
          /\ SITEMAP_INDICATORS[idx] = ROBOTS_TXT
          /\ reqs[1].kind = "probe"
          /\ reqs[1].status = 200
    /\ (idx <= NumCandidates /\ reqs # <<>> /\ reqs[1].status # 200) => sitemap_urls = <<>>
    /\ RobotsServedOnAlternate =>
          /\ pc \in {"alt_content", "sleep"}
          /\ Len(reqs) <= 3
          /\ \A i \in 2..Len(reqs) :
                /\ reqs[i].url = AltFullPath(idx)
                /\ reqs[i].url \notin Range(DeclaredSitemaps(ROBOTS_LINE_1))
          /\ Len(reqs) = 3 =>
                /\ reqs[3].kind = "content"
                /\ (reqs[3].status = 200 /\ fetched.content = RobotsBody) =>
                      (~reqs[3].parsed /\ Len(all_results) = len_at_probe)

\* C19's case: the alternate robots.txt url was answered 200, get_sitemap_content
\* fetched it, got a robots.txt that declares a sitemap, and the iteration is over
C19_Witness ==
    /\ RobotsServedOnAlternate
    /\ pc = "sleep"
    /\ Len(reqs) = 3
    /\ reqs[3].status = 200
    /\ fetched.content = RobotsBody

====
